---- MODULE Spec2Model ----
(***************************************************************************)
(* newsbot: the feed ingestor (news_fetcher.py) and the publish selector   *)
(* and dispatcher (main.py) running against one SQLite store with the two  *)
(* tables articles and posts.                                              *)
(*                                                                         *)
(* Store model.  A connection that has executed an INSERT holds SQLite's   *)
(* write lock until it commits or rolls back; its uncommitted rows are     *)
(* visible to itself only.  A second writer waits for the lock (the busy   *)
(* handler); expiry of the busy timeout is an environment fault that is    *)
(* not modelled.  SELECT statements outside a transaction read the         *)
(* committed rows.  AUTOINCREMENT keeps one counter per table, which is    *)
(* part of the transaction.                                                *)
(***************************************************************************)
EXTENDS Integers, Sequences, FiniteSets, TLC

\* Ingestion runs and dispatcher runs started in one behaviour.
MaxIngestRuns == 2
MaxDispatchRuns == 3

\* feed.entries[:3]
EntryLimit == 3

Ingestors == {"i1", "i2"}
Dispatchers == {"d1", "d2"}

\* An absent optional value (dict.get miss, Optional[...] None) is the empty
\* tuple, a present one the one-element tuple.
Absent == <<>>
Present(v) == <<v>>

NoTitle == <<"No title available">>
NoSummary == <<"No summary available">>
NoLink == <<"No link available">>

\* datetime.now().isoformat(): whatever the clock reads at that moment.
Clock == {"now1", "now2"}

\* Feed entries as feedparser hands them over; texts are tuples of characters.
\* EntryA and EntryB differ in every field and agree on title+summary.
EntryA == [title |-> Present(<<"a", "b">>), summary |-> Present(<<"c">>),
           link |-> Present(<<"l1">>), published |-> Present("d1")]
EntryB == [title |-> Present(<<"a">>), summary |-> Present(<<"b", "c">>),
           link |-> Present(<<"l2">>), published |-> Present("d2")]
EntryC == [title |-> Absent, summary |-> Present(<<"s">>),
           link |-> Absent, published |-> Absent]
EntryD == [title |-> Present(<<"x">>), summary |-> Absent,
           link |-> Present(<<"l4">>), published |-> Present("d4")]
EntryE == [title |-> Present(<<"e">>), summary |-> Present(<<"f">>),
           link |-> Present(<<"l5">>), published |-> Present("d5")]

\* Parsed feeds: bozo is feedparser's malformed-feed flag.  EntryE is met only
\* as a fourth entry and in the malformed feed.
FeedAD == [bozo |-> FALSE, entries |-> <<EntryA, EntryD>>]
FeedBACE == [bozo |-> FALSE, entries |-> <<EntryB, EntryA, EntryC, EntryE>>]
FeedBozo == [bozo |-> TRUE, entries |-> <<EntryE>>]

\* The feeds arguments tried: one source, several sources sharing entries,
\* and the malformed source first, in the middle and last.
FeedLists ==
  { <<FeedAD>>,
    <<FeedBACE>>,
    <<FeedBACE, FeedAD>>,
    <<FeedBozo, FeedAD>>,
    <<FeedBACE, FeedBozo>>,
    <<FeedAD, FeedBozo, FeedBACE>> }

\* entry.get(key, default)
EntryGet(entry, key, default) ==
  IF entry[key] = Absent THEN default ELSE entry[key][1]

\* generate_md5: the digest of the concatenation title+summary.  MD5 is taken
\* as collision-free, so the digest is represented by the text it digests.
generate_md5(title, summary) == title \o summary

Md5s(rows) == { a.md5sum : a \in rows }

VARIABLES
  articles,   \* committed rows of table articles
  seqA,       \* committed AUTOINCREMENT counter of articles
  posts,      \* committed rows of table posts
  seqP,       \* committed AUTOINCREMENT counter of posts
  writer,     \* the connection holding the write lock, if any
  pcI,        \* ingestion run: position in fetch_and_store_news
  feedsI,     \* ingestion run: the feeds argument
  fi,         \* ingestion run: index of the current feed
  ei,         \* ingestion run: index of the current entry
  pendI,      \* ingestion run: rows inserted and not yet committed
  repeatI,    \* ingestion run: it repeats the process's last committed run
  pcD,        \* dispatcher run: position in main
  debug_mode, \* config.ini: [Settings] debug_mode
  artD,       \* dispatcher run: the row fetch_next_article returned
  genD,       \* dispatcher run: calls of llm.generate and how the call ended
  tweetD,     \* dispatcher run: tweet_text
  gwD,        \* dispatcher run: calls of create_tweet and whether one raised
  markD,      \* dispatcher run: effect of mark_posted
  runsI,      \* history: ingestion runs started
  runsD,      \* history: dispatcher runs started
  everMarked, \* history: fingerprints for which a mark was created
  markOrder,  \* history: article ids in the order their marks were created
  stripIn,    \* strip_think: the text argument
  stripOut,   \* strip_think: the text returned, once it has returned
  pcG,        \* generate: position in LLMClient.generate
  stripG,     \* generate: the strip argument
  linesG,     \* generate: the lines resp.iter_lines has yielded so far
  tokensG,    \* generate: the list tokens
  retG        \* generate: the value returned, once it has returned

storeVars == <<articles, seqA, posts, seqP, writer>>
ingestVars == <<pcI, feedsI, fi, ei, pendI, repeatI>>
dispatchVars == <<pcD, debug_mode, artD, genD, tweetD, gwD, markD>>
histVars == <<everMarked, markOrder>>
runVars == <<runsI, runsD>>
clientVars == <<stripIn, stripOut, pcG, stripG, linesG, tokensG, retG>>
vars == <<storeVars, ingestVars, dispatchVars, histVars, runVars, clientVars>>


(***************************************************************************)
(* The store                                                               *)
(***************************************************************************)

\* What a connection reads: the committed rows and its own uncommitted ones.
View(r) == articles \cup pendI[r]

\* Mutant: the SELECT compares the wrong column.
ArticleExists_WrongColumn(rows, md5sum) == \E a \in rows : a.title = md5sum

\* cursor.execute("SELECT 1 FROM articles WHERE md5sum = ?"); cursor.fetchone()
ArticleExists(rows, md5sum) == \E a \in rows : a.md5sum = md5sum

\* Mutant: the column is declared without UNIQUE.
UniqueViolation_NoConstraint(rows, md5sum) == FALSE

\* md5sum TEXT UNIQUE NOT NULL of table articles: the INSERT raises
\* sqlite3.IntegrityError when the value is already there.
UniqueViolation(rows, md5sum) == \E a \in rows : a.md5sum = md5sum

\* id INTEGER PRIMARY KEY AUTOINCREMENT
NextRowId(seq) == seq + 1

\* The row fetch_and_store_news inserts for an entry.
ArticleRow(id, entry, now) ==
  LET title == EntryGet(entry, "title", NoTitle)
      summary == EntryGet(entry, "summary", NoSummary)
  IN [id |-> id,
      title |-> title,
      summary |-> summary,
      link |-> EntryGet(entry, "link", NoLink),
      published_at |-> EntryGet(entry, "published", now),
      md5sum |-> generate_md5(title, summary)]

\* The md5sum fetch_and_store_news computes for an entry.
EntryMd5(entry) ==
  generate_md5(EntryGet(entry, "title", NoTitle),
               EntryGet(entry, "summary", NoSummary))

\* feed.entries[:3]
Considered(feed) ==
  SubSeq(feed.entries, 1,
         IF Len(feed.entries) < EntryLimit THEN Len(feed.entries) ELSE EntryLimit)

(***************************************************************************)
(* Feed ingestor: fetch_and_store_news                                     *)
(***************************************************************************)

\* Mutant: `break` in place of `continue`, the remaining feeds are dropped.
SkipSource_Abort(i, n) == n + 1

\* After a feed whose bozo flag is set: `continue` goes on with the next feed.
SkipSource(i, n) == i + 1

\* fetch_and_store_news(feeds) is called: the connection is opened.
IStart(r) ==
  /\ pcI[r] \in {"idle", "done", "crashed"}
  /\ runsI < MaxIngestRuns
  /\ runsI' = runsI + 1
  /\ \E feeds \in FeedLists :
       /\ feedsI' = [feedsI EXCEPT ![r] = feeds]
       /\ repeatI' = [repeatI EXCEPT ![r] = FALSE]
  /\ pcI' = [pcI EXCEPT ![r] = "feed"]
  /\ fi' = [fi EXCEPT ![r] = 1]
  /\ ei' = [ei EXCEPT ![r] = 1]
  /\ pendI' = [pendI EXCEPT ![r] = {}]
  /\ UNCHANGED <<storeVars, dispatchVars, histVars, clientVars, runsD>>

\* The same process runs fetch_and_store_news again over the feeds of the
\* run it has just committed, the feeds answering as they did before.
IRerun(r) ==
  /\ pcI[r] = "done"
  /\ runsI < MaxIngestRuns
  /\ runsI' = runsI + 1
  /\ repeatI' = [repeatI EXCEPT ![r] = TRUE]
  /\ pcI' = [pcI EXCEPT ![r] = "feed"]
  /\ fi' = [fi EXCEPT ![r] = 1]
  /\ ei' = [ei EXCEPT ![r] = 1]
  /\ pendI' = [pendI EXCEPT ![r] = {}]
  /\ UNCHANGED <<feedsI, storeVars, dispatchVars, histVars, clientVars, runsD>>

\* for feed_url in feeds: feed = feedparser.parse(feed_url); bozo check.
\* When the list is exhausted the loop ends and the commit is next.
IParse(r) ==
  /\ pcI[r] = "feed"
  /\ IF fi[r] > Len(feedsI[r])
       THEN /\ pcI' = [pcI EXCEPT ![r] = "commit"]
            /\ UNCHANGED <<fi, ei>>
       ELSE IF feedsI[r][fi[r]].bozo
         THEN /\ fi' = [fi EXCEPT ![r] = SkipSource(fi[r], Len(feedsI[r]))]
              /\ UNCHANGED <<pcI, ei>>
         ELSE /\ pcI' = [pcI EXCEPT ![r] = "entry"]
              /\ ei' = [ei EXCEPT ![r] = 1]
              /\ UNCHANGED fi
  /\ UNCHANGED <<feedsI, pendI, repeatI, storeVars, dispatchVars, histVars, clientVars, runVars>>

\* for entry in feed.entries[:3]: compute md5sum, SELECT, and `continue` when
\* the article already exists.  When the entries are exhausted the next feed
\* is taken.
ISelect(r) ==
  /\ pcI[r] = "entry"
  /\ LET entries == Considered(feedsI[r][fi[r]])
     IN IF ei[r] > Len(entries)
          THEN /\ fi' = [fi EXCEPT ![r] = fi[r] + 1]
               /\ pcI' = [pcI EXCEPT ![r] = "feed"]
               /\ UNCHANGED ei
          ELSE IF ArticleExists(View(r), EntryMd5(entries[ei[r]]))
            THEN /\ ei' = [ei EXCEPT ![r] = ei[r] + 1]
                 /\ UNCHANGED <<fi, pcI>>
            ELSE /\ pcI' = [pcI EXCEPT ![r] = "insert"]
                 /\ UNCHANGED <<fi, ei>>
  /\ UNCHANGED <<feedsI, pendI, repeatI, storeVars, dispatchVars, histVars, clientVars, runVars>>

\* Mutant: leaving the `with` block on an exception keeps what was inserted.
Rollback_Commit(rows, pend) == rows \cup pend

\* The table after the `with` block is left on an exception: the
\* transaction's rows are rolled back, the committed rows stay.
Rollback(rows, pend) == rows

\* cursor.execute("INSERT INTO articles ..."): waits for the write lock, then
\* either inserts the row into the open transaction or raises IntegrityError;
\* the exception leaves the `with` block, which rolls the transaction back,
\* and ends the run.
IInsert(r) ==
  /\ pcI[r] = "insert"
  /\ writer \in {Absent, Present(r)}
  /\ LET entry == Considered(feedsI[r][fi[r]])[ei[r]]
     IN IF UniqueViolation(View(r), EntryMd5(entry))
          THEN /\ articles' = Rollback(articles, pendI[r])
               /\ pendI' = [pendI EXCEPT ![r] = {}]
               /\ writer' = Absent
               /\ pcI' = [pcI EXCEPT ![r] = "crashed"]
               /\ UNCHANGED ei
          ELSE /\ \E now \in Clock :
                    pendI' = [pendI EXCEPT ![r] = @ \cup
                      {ArticleRow(NextRowId(seqA + Cardinality(pendI[r])), entry, now)}]
               /\ writer' = Present(r)
               /\ ei' = [ei EXCEPT ![r] = ei[r] + 1]
               /\ pcI' = [pcI EXCEPT ![r] = "entry"]
               /\ UNCHANGED articles
  /\ UNCHANGED <<seqA, posts, seqP, feedsI, fi, repeatI,
                 dispatchVars, histVars, clientVars, runVars>>

\* The INSERT or the COMMIT fails in the store (sqlite3.OperationalError:
\* disk full, I/O error): the exception leaves the `with` block, which rolls
\* the transaction back, and ends the run.
IWriteFails(r) ==
  /\ pcI[r] \in {"insert", "commit"}
  /\ writer \in {Absent, Present(r)}
  /\ articles' = Rollback(articles, pendI[r])
  /\ pendI' = [pendI EXCEPT ![r] = {}]
  /\ writer' = Absent
  /\ pcI' = [pcI EXCEPT ![r] = "crashed"]
  /\ UNCHANGED <<seqA, posts, seqP, feedsI, fi, ei, repeatI,
                 dispatchVars, histVars, clientVars, runVars>>

\* Mutant: the commit writes the run's rows in place of the table.
Commit_Replace(rows, pend) == IF pend = {} THEN rows ELSE pend

\* The table after COMMIT: the committed rows and the transaction's.
Commit(rows, pend) == rows \cup pend

\* conn.commit() after the loop over the feeds.
ICommit(r) ==
  /\ pcI[r] = "commit"
  /\ articles' = Commit(articles, pendI[r])
  /\ seqA' = seqA + Cardinality(pendI[r])
  /\ writer' = IF writer = Present(r) THEN Absent ELSE writer
  /\ pendI' = [pendI EXCEPT ![r] = {}]
  /\ pcI' = [pcI EXCEPT ![r] = "done"]
  /\ UNCHANGED <<posts, seqP, feedsI, fi, ei, repeatI, dispatchVars, histVars, clientVars, runVars>>

(***************************************************************************)
(* Publish selector and dispatcher: main                                   *)
(***************************************************************************)

\* Texts llm.generate may hand back (after strip_think); None is Absent.
GenTexts == { <<>>, <<"T">>, <<"'", "T", "\"">> }
GenResults == {Absent} \cup { Present(t) : t \in GenTexts }

\* How a call of llm.generate that returned ended, as `if not result` sees it.
GenOutcome(result) ==
  IF result = Absent THEN "none"
  ELSE IF result[1] = <<>> THEN "empty" ELSE "text"

\* What client.create_tweet does: it returns, raises tweepy.TweepyException,
\* or raises something else (a transport error of the HTTP library).
GatewayOutcomes == {"ok", "TweepyException", "OtherException"}

QuoteChars == {"\"", "'"}

\* str.lstrip(chars)
RECURSIVE LStrip(_, _)
LStrip(text, chars) ==
  IF text # <<>> /\ Head(text) \in chars THEN LStrip(Tail(text), chars) ELSE text

\* str.rstrip(chars)
RECURSIVE RStrip(_, _)
RStrip(text, chars) ==
  IF text # <<>> /\ text[Len(text)] \in chars
    THEN RStrip(SubSeq(text, 1, Len(text) - 1), chars)
    ELSE text

\* str.strip(chars)
Strip(text, chars) == RStrip(LStrip(text, chars), chars)

\* Mutant: only None is taken as a failed generation (`if result is None`).
summarize_OnlyNoneCheck(title, summary, link, result) ==
  IF result = Absent
    THEN Absent
    ELSE Present(Strip(result[1], QuoteChars) \o <<"\n", "\n">> \o link)

\* Mutant: summarize gives up whatever llm.generate returned.
summarize_AlwaysNone(title, summary, link, result) == Absent

\* summarize, given what llm.generate returned: None when the result is None
\* or empty, else the result without surrounding quotes, a blank line, the link.
summarize(title, summary, link, result) ==
  IF result = Absent \/ result[1] = <<>>
    THEN Absent
    ELSE Present(Strip(result[1], QuoteChars) \o <<"\n", "\n">> \o link)

\* Mutant: the row unpacked with link and md5sum in each other's place.
Selected_SwappedColumns(a) ==
  [id |-> a.id, title |-> a.title, summary |-> a.summary, link |-> a.md5sum,
   md5sum |-> a.link]

\* The columns fetch_next_article selects.
Selected(a) ==
  [id |-> a.id, title |-> a.title, summary |-> a.summary, link |-> a.link,
   md5sum |-> a.md5sum]

\* Mutant: the query without its WHERE clause.
fetch_next_article_NoFilter(arts, psts) ==
  IF arts = {}
    THEN Absent
    ELSE Present(Selected(CHOOSE a \in arts : \A b \in arts : a.id <= b.id))

\* Mutant: ORDER BY id DESC.
fetch_next_article_Newest(arts, psts) ==
  LET fresh == { a \in arts : a.md5sum \notin Md5s(psts) }
  IN IF fresh = {}
       THEN Absent
       ELSE Present(Selected(CHOOSE a \in fresh : \A b \in fresh : a.id >= b.id))

\* SELECT id, title, summary, link, md5sum FROM articles
\* WHERE md5sum NOT IN (SELECT md5sum FROM posts) ORDER BY id LIMIT 1; fetchone()
fetch_next_article(arts, psts) ==
  LET fresh == { a \in arts : a.md5sum \notin Md5s(psts) }
  IN IF fresh = {}
       THEN Absent
       ELSE Present(Selected(CHOOSE a \in fresh : \A b \in fresh : a.id <= b.id))

\* Mutant: a plain INSERT into a table whose md5sum is not UNIQUE.
mark_posted_PlainInsert(psts, seq, md5sum) ==
  psts \cup {[id |-> NextRowId(seq), md5sum |-> md5sum]}

\* INSERT OR IGNORE INTO posts (md5sum) VALUES (?): the rows of posts after it
\* (md5sum is UNIQUE: a value already there is ignored).
mark_posted(psts, seq, md5sum) ==
  IF \E p \in psts : p.md5sum = md5sum
    THEN psts
    ELSE psts \cup {[id |-> NextRowId(seq), md5sum |-> md5sum]}

\* Mutant: the debug flag is not looked at.
post_to_twitter_NoDebug(debug, outcome) ==
  [calls |-> 1, failed |-> outcome # "ok",
   returns |-> outcome \in {"ok", "TweepyException"}]

\* post_to_twitter: in debug mode the tweet is logged and create_tweet is not
\* called; otherwise it is called once, a TweepyException is caught and
\* logged, and any other exception leaves the function.
post_to_twitter(debug, outcome) ==
  IF debug
    THEN [calls |-> 0, failed |-> FALSE, returns |-> TRUE]
    ELSE [calls |-> 1, failed |-> outcome # "ok",
          returns |-> outcome \in {"ok", "TweepyException"}]

\* main starts: cfg = Config.load(); init_db(); the clients are built.
\* config.ini is not edited while the pipeline is in use.
DStart(d) ==
  /\ pcD[d] \in {"idle", "done", "crashed"}
  /\ runsD < MaxDispatchRuns
  /\ runsD' = runsD + 1
  /\ pcD' = [pcD EXCEPT ![d] = "select"]
  /\ artD' = [artD EXCEPT ![d] = Absent]
  /\ genD' = [genD EXCEPT ![d] = [calls |-> 0, outcome |-> "pending"]]
  /\ tweetD' = [tweetD EXCEPT ![d] = Absent]
  /\ gwD' = [gwD EXCEPT ![d] = [calls |-> 0, failed |-> FALSE]]
  /\ markD' = [markD EXCEPT ![d] = "none"]
  /\ UNCHANGED <<debug_mode, storeVars, ingestVars, histVars, clientVars, runsI>>

\* article = fetch_next_article(); if not article: return
DSelect(d) ==
  /\ pcD[d] = "select"
  /\ artD' = [artD EXCEPT ![d] = fetch_next_article(articles, posts)]
  /\ pcD' = [pcD EXCEPT ![d] =
               IF fetch_next_article(articles, posts) = Absent
                 THEN "done" ELSE "summarize"]
  /\ UNCHANGED <<debug_mode, genD, tweetD, gwD, markD,
                 storeVars, ingestVars, histVars, clientVars, runVars>>

\* tweet_text = summarize(...); if not tweet_text: return.  llm.generate
\* returns a text or None, or raises an exception it does not catch.
DSummarize(d) ==
  /\ pcD[d] = "summarize"
  /\ \/ \E result \in GenResults :
          LET a == artD[d][1]
              tweet == summarize(a.title, a.summary, a.link, result)
          IN /\ genD' = [genD EXCEPT ![d] =
                           [calls |-> genD[d].calls + 1,
                            outcome |-> GenOutcome(result)]]
             /\ tweetD' = [tweetD EXCEPT ![d] = tweet]
             /\ pcD' = [pcD EXCEPT ![d] = IF tweet = Absent THEN "done" ELSE "post"]
     \/ /\ genD' = [genD EXCEPT ![d] =
                      [calls |-> genD[d].calls + 1, outcome |-> "raised"]]
        /\ pcD' = [pcD EXCEPT ![d] = "crashed"]
        /\ UNCHANGED tweetD
  /\ UNCHANGED <<debug_mode, artD, gwD, markD, storeVars, ingestVars, histVars, clientVars, runVars>>

\* post_to_twitter(twitter, tweet_text, debug=cfg.debug_mode)
DPost(d) ==
  /\ pcD[d] = "post"
  /\ \E outcome \in GatewayOutcomes :
       LET sent == post_to_twitter(debug_mode, outcome)
       IN /\ gwD' = [gwD EXCEPT ![d] =
                       [calls |-> gwD[d].calls + sent.calls,
                        failed |-> sent.failed]]
          /\ pcD' = [pcD EXCEPT ![d] = IF sent.returns THEN "mark" ELSE "crashed"]
  /\ UNCHANGED <<debug_mode, artD, genD, tweetD, markD,
                 storeVars, ingestVars, histVars, clientVars, runVars>>

\* Mutant: main loops back to the selector after the mark.
AfterMark_Loop == "select"

\* Where main is after mark_posted: at its end.
AfterMark == "done"

\* mark_posted(md5sum): the INSERT OR IGNORE and its commit, once the write
\* lock is free.  The AUTOINCREMENT counter advances for an ignored row too.
DMark(d) ==
  /\ pcD[d] = "mark"
  /\ writer = Absent
  /\ LET md5sum == artD[d][1].md5sum
         after == mark_posted(posts, seqP, md5sum)
     IN /\ posts' = after
        /\ seqP' = seqP + 1
        /\ markD' = [markD EXCEPT ![d] =
                       IF after = posts THEN "ignored" ELSE "created"]
        /\ everMarked' = everMarked \cup Md5s(after \ posts)
        /\ markOrder' = IF after = posts THEN markOrder
                        ELSE Append(markOrder, artD[d][1].id)
  /\ pcD' = [pcD EXCEPT ![d] = AfterMark]
  /\ UNCHANGED <<articles, seqA, writer, debug_mode, artD, genD, tweetD, gwD,
                 ingestVars, runVars, clientVars>>

(***************************************************************************)
(* Specifications                                                          *)
(***************************************************************************)

\* initialize_db / init_db have created the two empty tables; nothing runs.
InitPipeline ==
  /\ articles = {}
  /\ seqA = 0
  /\ posts = {}
  /\ seqP = 0
  /\ writer = Absent
  /\ pcI = [r \in Ingestors |-> "idle"]
  /\ feedsI = [r \in Ingestors |-> <<>>]
  /\ fi = [r \in Ingestors |-> 1]
  /\ ei = [r \in Ingestors |-> 1]
  /\ pendI = [r \in Ingestors |-> {}]
  /\ repeatI = [r \in Ingestors |-> FALSE]
  /\ pcD = [d \in Dispatchers |-> "idle"]
  /\ debug_mode \in BOOLEAN
  /\ artD = [d \in Dispatchers |-> Absent]
  /\ genD = [d \in Dispatchers |-> [calls |-> 0, outcome |-> "pending"]]
  /\ tweetD = [d \in Dispatchers |-> Absent]
  /\ gwD = [d \in Dispatchers |-> [calls |-> 0, failed |-> FALSE]]
  /\ markD = [d \in Dispatchers |-> "none"]
  /\ runsI = 0
  /\ runsD = 0
  /\ everMarked = {}
  /\ markOrder = <<>>

\* No call of the text generation client is in progress.
InitClient ==
  /\ stripIn = <<>>
  /\ stripOut = Absent
  /\ pcG = "idle"
  /\ stripG = TRUE
  /\ linesG = <<>>
  /\ tokensG = <<>>
  /\ retG = Absent

Init == InitPipeline /\ InitClient

Ingest(r) ==
  \/ IStart(r)
  \/ IRerun(r)
  \/ IParse(r)
  \/ ISelect(r)
  \/ IInsert(r)
  \/ ICommit(r)

Dispatch(d) ==
  \/ DSelect(d)
  \/ DSummarize(d)
  \/ DPost(d)
  \/ DMark(d)

\* The scheduler starts one dispatcher run at a time, as the design assumes;
\* ingestion runs come between its steps.
Next ==
  \/ \E r \in {"i1"} : Ingest(r)
  \/ \E d \in {"d1"} : DStart(d) \/ Dispatch(d)

Spec == Init /\ [][Next]_vars

\* Ingestion runs interleaved on the same store.
NextIngest == \E r \in Ingestors : Ingest(r)

SpecIngest == Init /\ [][NextIngest]_vars

\* Dispatcher runs interleaved on the same store, with no mutual exclusion,
\* once ingestion has filled the store.
IngestFirst(r) == runsD = 0 /\ Ingest(r)

DStartConc(d) ==
  /\ \A r \in Ingestors : pcI[r] \in {"idle", "done", "crashed"}
  /\ DStart(d)

NextConc ==
  \/ \E r \in {"i1"} : IngestFirst(r)
  \/ \E d \in Dispatchers : DStartConc(d) \/ Dispatch(d)

SpecConc == Init /\ [][NextConc]_vars

(***************************************************************************)
(* Properties of the dispatcher                                            *)
(***************************************************************************)

Ended(d) == pcD[d] \in {"done", "crashed"}

\* The rows of posts that carry the fingerprint of the article of run d.
MarksOf(d) == { p \in posts : p.md5sum = artD[d][1].md5sum }

\* C1: outside debug mode, a run whose create_tweet call raised ends without
\* a PublishedMark for the article's fingerprint, and the selector still
\* returns that article.
C1_SendFailureLeavesUnmarked ==
  \A d \in Dispatchers :
    (~debug_mode /\ Ended(d) /\ gwD[d].failed) =>
      /\ markD[d] = "none"
      /\ MarksOf(d) = {}
      /\ fetch_next_article(articles, posts) = artD[d]

\* C2: a run whose generation call failed (no result, or an empty one) ends
\* normally right there: it made no create_tweet call and created no
\* PublishedMark, and the selector still returns the article it had selected.
C2_GenerationFailureLeavesUnmarked ==
  \A d \in Dispatchers :
    (genD[d].outcome \in {"none", "empty"}) =>
      /\ pcD[d] = "done"
      /\ gwD[d].calls = 0
      /\ markD[d] = "none"
      /\ MarksOf(d) = {}
      /\ fetch_next_article(articles, posts) = artD[d]

C2_Witness ==
  \E d \in Dispatchers :
    /\ pcD[d] = "done"
    /\ genD[d].outcome = "none"
    /\ artD[d] # Absent

\* C3: in debug mode no run calls create_tweet, a run whose generation gave a
\* text goes on to the mark step, and when it has ended it has created the
\* PublishedMark of its article, of which there is exactly one.
C3_DebugMarksWithoutSend ==
  debug_mode =>
    \A d \in Dispatchers :
      /\ gwD[d].calls = 0
      /\ genD[d].outcome = "text" => pcD[d] \in {"post", "mark", "done"}
      /\ (genD[d].outcome = "text" /\ pcD[d] = "done") =>
           /\ markD[d] = "created"
           /\ Cardinality(MarksOf(d)) = 1

C3_Witness ==
  /\ debug_mode
  /\ \E d \in Dispatchers :
       /\ pcD[d] = "done"
       /\ genD[d].outcome = "text"
       /\ markD[d] = "created"
       /\ Cardinality(posts) = 1

\* C4: the article a run holds between its selection and its mark step never
\* has a fingerprint for which an earlier run created a PublishedMark; marks
\* once created stay in the store.
C4_MarkedNeverSelectedAgain ==
  /\ everMarked = Md5s(posts)
  /\ \A d \in Dispatchers :
       pcD[d] \in {"summarize", "post", "mark"} =>
         artD[d] # Absent /\ artD[d][1].md5sum \notin everMarked

C4_Witness ==
  \E d \in Dispatchers :
    /\ pcD[d] = "summarize"
    /\ everMarked # {}
    /\ Cardinality(articles) = Cardinality(posts) + 1

\* C5: on the store of every reachable state the selector returns nothing
\* exactly when every article's fingerprint is marked, and otherwise the
\* unmarked article of smallest id; marks are created in strictly increasing
\* order of article id.
C5_OldestUnpublishedFirst ==
  /\ LET next == fetch_next_article(articles, posts)
     IN /\ next = Absent <=> Md5s(articles) \subseteq Md5s(posts)
        /\ next # Absent =>
             /\ \E a \in articles : Selected(a) = next[1]
             /\ next[1].md5sum \notin Md5s(posts)
             /\ \A b \in articles :
                  b.md5sum \notin Md5s(posts) => next[1].id <= b.id
  /\ \A i, j \in DOMAIN markOrder : i < j => markOrder[i] < markOrder[j]

C5_Witness == markOrder = <<1, 2, 3>>

(***************************************************************************)
(* Properties of the ingestor and of the store                             *)
(***************************************************************************)

\* No two of the rows share a fingerprint.
UniqueMd5(rows) == \A a, b \in rows : a.md5sum = b.md5sum => a = b

\* The fingerprints of the entries a run over feeds is to store: the first
\* EntryLimit entries of every well-formed source.
Wanted(feeds) ==
  UNION { { EntryMd5(Considered(feeds[i])[k]) :
              k \in DOMAIN Considered(feeds[i]) } :
          i \in { n \in DOMAIN feeds : ~feeds[n].bozo } }

\* C6: no two Items share a fingerprint, neither among the committed rows nor
\* among the rows a run sees inside its open transaction.
C6_ItemFingerprintsUnique ==
  /\ UniqueMd5(articles)
  /\ \A r \in Ingestors : UniqueMd5(View(r))

C6_Witness ==
  /\ \A r \in Ingestors : pcI[r] = "done" /\ FeedBACE \in { feedsI[r][i] : i \in DOMAIN feedsI[r] }
  /\ Cardinality(articles) = 3

\* C7: a run that repeats a committed run over the same feed entries never
\* gets to an INSERT: it holds no uncommitted row, it does not fail, and so
\* its commit adds nothing to the store.
C7_RepeatedRunInsertsNothing ==
  \A r \in Ingestors :
    repeatI[r] =>
      /\ pendI[r] = {}
      /\ pcI[r] \notin {"insert", "crashed"}
      /\ writer # Present(r)

C7_Witness ==
  \E r \in Ingestors :
    /\ repeatI[r]
    /\ pcI[r] = "done"
    /\ feedsI[r] = <<FeedBACE, FeedAD>>
    /\ Cardinality(articles) = 3

\* C9: no ingestion run ends with an exception.
C9_NoRunEndsWithException ==
  \A r \in Ingestors : pcI[r] # "crashed"

\* C10: when a run has committed, the fingerprint of each of the first
\* EntryLimit entries of every well-formed source of its list is in the
\* store, wherever the malformed source sits in the list; the entries of the
\* malformed source are not stored.
C10_MalformedSourceSkipped ==
  /\ \A r \in Ingestors :
       pcI[r] = "done" => Wanted(feedsI[r]) \subseteq Md5s(articles)
  /\ EntryMd5(EntryE) \notin Md5s(articles)

C10_Witness ==
  \E r \in Ingestors :
    /\ pcI[r] = "done"
    /\ feedsI[r] = <<FeedAD, FeedBozo, FeedBACE>>
    /\ runsI = 1
    /\ Cardinality(articles) = 3

(***************************************************************************)
(* Properties of interleaved dispatcher runs                               *)
(***************************************************************************)

\* C8: no two PublishedMark rows share a fingerprint, and marking a
\* fingerprint that is already marked leaves the rows of posts as they are.
C8_MarkFingerprintsUnique ==
  /\ \A p, q \in posts : p.md5sum = q.md5sum => p = q
  /\ \A m \in Md5s(posts) : mark_posted(posts, seqP, m) = posts
  /\ \A d \in Dispatchers : markD[d] = "ignored" => Cardinality(MarksOf(d)) = 1

C8_Witness ==
  /\ markD["d1"] = "created"
  /\ markD["d2"] = "ignored"
  /\ artD["d1"] = artD["d2"]
  /\ Cardinality(posts) = 1

(***************************************************************************)
(* Text generation client: strip_think                                     *)
(***************************************************************************)

\* Pieces put together into one argument of strip_think.
MaxPieces == 5

\* The two markers of THINK_RE, character by character.
OpenMarker == <<"<", "t", "h", "i", "n", "k", ">">>
CloseMarker == <<"<", "/", "t", "h", "i", "n", "k", ">">>

\* What str.strip() removes.
Whitespace == {" ", "\n", "\t"}

\* The pieces a text is made of: the markers, the two halves of an open
\* marker, a visible character and a blank.
Pieces ==
  { OpenMarker, CloseMarker, <<"<", "t", "h">>, <<"i", "n", "k", ">">>,
    <<"x">>, <<" ">> }

\* "".join(parts)
RECURSIVE Join(_)
Join(parts) ==
  IF parts = <<>> THEN <<>> ELSE Head(parts) \o Join(Tail(parts))

StripInputs ==
  { Join(ps) : ps \in UNION { [1..n -> Pieces] : n \in 0..MaxPieces } }

\* The first position at or after from where pat occurs in text; 0 if none.
IndexOf(text, pat, from) ==
  LET hits == { i \in from..(Len(text) - Len(pat) + 1) :
                  SubSeq(text, i, i + Len(pat) - 1) = pat }
  IN IF hits = {} THEN 0 ELSE CHOOSE i \in hits : \A j \in hits : i <= j

\* THINK_RE.sub("", text) with THINK_RE = <think>.*?</think> (DOTALL): one
\* pass from left to right; each match runs from the leftmost open marker to
\* the first close marker after it, and the scan goes on behind the match.
RECURSIVE THINK_RE_sub(_)
THINK_RE_sub(text) ==
  LET open == IndexOf(text, OpenMarker, 1)
      close == IF open = 0 THEN 0
               ELSE IndexOf(text, CloseMarker, open + Len(OpenMarker))
  IN IF close = 0
       THEN text
       ELSE SubSeq(text, 1, open - 1)
              \o THINK_RE_sub(SubSeq(text, close + Len(CloseMarker), Len(text)))

\* strip_think
strip_think(text) == Strip(THINK_RE_sub(text), Whitespace)

\* strip_think(text) is called and returns.
StripCall ==
  /\ stripOut = Absent
  /\ stripOut' = Present(strip_think(stripIn))
  /\ UNCHANGED <<stripIn, pcG, stripG, linesG, tokensG, retG,
                 storeVars, ingestVars, dispatchVars, histVars, runVars>>

\* strip_think is about to be called with any of the texts.
InitStrip ==
  /\ InitPipeline
  /\ stripIn \in StripInputs
  /\ stripOut = Absent
  /\ pcG = "idle"
  /\ stripG = TRUE
  /\ linesG = <<>>
  /\ tokensG = <<>>
  /\ retG = Absent

NextStrip == StripCall

SpecStrip == InitStrip /\ [][NextStrip]_vars

\* An open marker with a close marker somewhere behind it.
HasMarkerPair(text) ==
  /\ IndexOf(text, OpenMarker, 1) # 0
  /\ IndexOf(text, CloseMarker, IndexOf(text, OpenMarker, 1) + Len(OpenMarker)) # 0

\* C11: what strip_think returns holds no open marker followed by a close
\* marker, and neither begins nor ends with whitespace.
C11_NoResidualMarkers ==
  stripOut # Absent =>
    LET out == stripOut[1]
    IN /\ ~HasMarkerPair(out)
       /\ out # <<>> => out[1] \notin Whitespace /\ out[Len(out)] \notin Whitespace

(***************************************************************************)
(* Text generation client: LLMClient.generate                              *)
(***************************************************************************)

\* Lines one response streams at most.
MaxLines == 3

\* The values of "response" in the streamed objects.
Fragments == { <<"a">>, <<"b">>, <<" ">>, OpenMarker, CloseMarker }

\* One line of resp.iter_lines: an empty line, a line that is not JSON, a
\* JSON value that is not an object, an object without "response", an object
\* whose "response" is null, an object whose "response" is a string.
StreamLines ==
  { [kind |-> k, response |-> Absent] :
      k \in {"empty", "malformed", "nonobject", "object_nokey", "object_null"} }
    \cup { [kind |-> "object", response |-> Present(f)] : f \in Fragments }

\* session.post / raise_for_status: the stream opens, or a
\* requests.RequestException is raised.
PostOutcomes == {"ok", "ConnectionError", "HTTPError", "Timeout"}

\* json.loads(line): "JSONDecodeError", or the kind of value parsed.
json_loads(line) ==
  IF line.kind = "malformed" THEN "JSONDecodeError"
  ELSE IF line.kind = "nonobject" THEN "value" ELSE "dict"

\* data.get("response", ""): the string, "" for a missing key, None for null.
data_get(line) ==
  IF line.kind = "object" THEN line.response
  ELSE IF line.kind = "object_nokey" THEN Present(<<>>) ELSE Absent

\* The loop body run on a line that does not raise out of the loop, with
\* the malformed line breaking off the accumulation.
consume_DropOnMalformed(tokens, line) ==
  IF line.kind = "empty" THEN tokens
  ELSE IF json_loads(line) = "JSONDecodeError" THEN <<>>
  ELSE Append(tokens, data_get(line))

\* The loop body run on a line that does not raise out of the loop: an
\* empty line is passed over, a malformed one is logged and passed over,
\* an object's "response" is appended.
consume(tokens, line) ==
  IF line.kind = "empty" THEN tokens
  ELSE IF json_loads(line) = "JSONDecodeError" THEN tokens
  ELSE Append(tokens, data_get(line))

\* generate(prompt, strip=strip) is called.
GStart(strip) ==
  /\ pcG = "idle"
  /\ pcG' = "post"
  /\ stripG' = strip
  /\ linesG' = <<>>
  /\ tokensG' = <<>>
  /\ retG' = Absent
  /\ UNCHANGED <<stripIn, stripOut,
                 storeVars, ingestVars, dispatchVars, histVars, runVars>>

\* session.post and raise_for_status: a RequestException is caught by the
\* outer handler, which returns None.
GPost(outcome) ==
  /\ pcG = "post"
  /\ IF outcome = "ok"
       THEN pcG' = "stream" /\ retG' = retG
       ELSE pcG' = "failed" /\ retG' = Absent
  /\ UNCHANGED <<stripIn, stripOut, stripG, linesG, tokensG,
                 storeVars, ingestVars, dispatchVars, histVars, runVars>>

\* iter_lines yields a line. A JSON value that is not an object has no get:
\* AttributeError, which neither handler catches.
GLine(line) ==
  /\ pcG = "stream"
  /\ Len(linesG) < MaxLines
  /\ linesG' = Append(linesG, line)
  /\ IF line.kind # "empty" /\ json_loads(line) = "value"
       THEN pcG' = "raised" /\ tokensG' = tokensG
       ELSE pcG' = pcG /\ tokensG' = consume(tokensG, line)
  /\ UNCHANGED <<stripIn, stripOut, stripG, retG,
                 storeVars, ingestVars, dispatchVars, histVars, runVars>>

\* iter_lines raises a RequestException in mid-stream: return None.
GStreamFail ==
  /\ pcG = "stream"
  /\ pcG' = "failed"
  /\ retG' = Absent
  /\ UNCHANGED <<stripIn, stripOut, stripG, linesG, tokensG,
                 storeVars, ingestVars, dispatchVars, histVars, runVars>>

\* The stream ends: "".join(tokens), a TypeError if a token is None, then
\* strip_think unless strip is off.
GJoin ==
  /\ pcG = "stream"
  /\ IF \E i \in 1..Len(tokensG) : tokensG[i] = Absent
       THEN pcG' = "raised" /\ retG' = retG
       ELSE LET text == Join([i \in 1..Len(tokensG) |-> tokensG[i][1]])
            IN /\ pcG' = "returned"
               /\ retG' = Present(IF stripG THEN strip_think(text) ELSE text)
  /\ UNCHANGED <<stripIn, stripOut, stripG, linesG, tokensG,
                 storeVars, ingestVars, dispatchVars, histVars, runVars>>

NextGen ==
  \/ \E strip \in BOOLEAN : GStart(strip)
  \/ \E outcome \in PostOutcomes : GPost(outcome)
  \/ \E line \in StreamLines : GLine(line)
  \/ GStreamFail
  \/ GJoin

SpecGen == Init /\ [][NextGen]_vars

\* C12: generate never raises into its caller, and a call ended by a
\* transport failure returns the no-result value.
C12_GenerateNeverRaises ==
  /\ pcG # "raised"
  /\ pcG = "failed" => retG = Absent

\* The lines read so far that parsed as objects, in arrival order.
WellFormedLines ==
  SelectSeq(linesG, LAMBDA l : l.kind \in {"object", "object_nokey", "object_null"})

\* The response fragment of a well-formed line: its "response" string, the
\* empty text when it has none.
ResponseFragment(l) == IF l.kind = "object" THEN l.response[1] ELSE <<>>

\* C13: the accumulated tokens are the response fragments of the well-formed
\* lines read so far, in arrival order, whatever empty or malformed lines
\* came between them; the text returned is their concatenation (sanitized
\* when strip is on).
C13_FragmentsInArrivalOrder ==
  /\ Len(tokensG) = Len(WellFormedLines)
  /\ \A i \in 1..Len(tokensG) :
       WellFormedLines[i].kind # "object_null" =>
         tokensG[i] = Present(ResponseFragment(WellFormedLines[i]))
  /\ pcG = "returned" =>
       LET text == Join([i \in 1..Len(WellFormedLines) |->
                           ResponseFragment(WellFormedLines[i])])
       IN retG = Present(IF stripG THEN strip_think(text) ELSE text)

\* A text was returned from a stream with a malformed line between two
\* different fragments.
C13_Witness ==
  /\ pcG = "returned"
  /\ ~stripG
  /\ Len(linesG) = 3
  /\ linesG[1].response = Present(<<"a">>)
  /\ linesG[2].kind = "malformed"
  /\ linesG[3].response = Present(<<"b">>)
  /\ retG = Present(<<"a", "b">>)

(***************************************************************************)
(* Frame and cardinality properties of the pipeline                        *)
(***************************************************************************)

\* C14: every PublishedMark's fingerprint is the fingerprint of an Item of
\* the store.
C14_MarksReferenceItems == Md5s(posts) \subseteq Md5s(articles)

\* Two items are marked, out of three in the store.
C14_Witness ==
  /\ Cardinality(posts) = 2
  /\ Cardinality(articles) = 3
  /\ Cardinality(Md5s(articles) \ Md5s(posts)) = 1

\* C15: a dispatcher run makes at most one generation call and at most one
\* gateway send, a step adds at most one PublishedMark and is the last step
\* of its run, and no more marks were written than runs were started.
C15_AtMostOneItemPerRun ==
  /\ [](\A d \in Dispatchers : genD[d].calls <= 1 /\ gwD[d].calls <= 1)
  /\ [](Cardinality(posts) <= seqP /\ seqP <= runsD)
  /\ [][ posts' # posts =>
           /\ Cardinality(posts' \ posts) = 1
           /\ \E d \in Dispatchers :
                pcD[d] = "mark" /\ pcD'[d] \in {"done", "crashed"} ]_vars

\* A run that called the generator and the gateway once and wrote one mark
\* has ended, with unpublished items left in the store.
C15_Witness ==
  \E d \in Dispatchers :
    /\ pcD[d] = "done"
    /\ genD[d].calls = 1
    /\ gwD[d].calls = 1
    /\ markD[d] = "created"
    /\ fetch_next_article(articles, posts) # Absent

\* The article of the store that run d selected.
ArticleOf(d) == CHOOSE a \in articles : a.id = artD[d][1].id

\* C17: no step updates or deletes an Item or a PublishedMark; a step of an
\* ingestion run leaves the published set unchanged; a step of a dispatcher
\* run leaves the Items unchanged and adds to the published set nothing but
\* the fingerprint of the item the run selected.
C17_ItemsNeverUpdatedOrDeleted ==
  [][ /\ articles \subseteq articles'
      /\ posts \subseteq posts'
      /\ pcI' # pcI => posts' = posts
      /\ pcD' # pcD => articles' = articles
      /\ posts' # posts =>
           \E d \in Dispatchers :
             /\ pcD[d] = "mark" /\ pcD'[d] # "mark"
             /\ Md5s(posts' \ posts) = {ArticleOf(d).md5sum} ]_vars

\* An ingestion run has committed into a store that already held an Item
\* and its PublishedMark.
C17_Witness ==
  /\ runsI = 2
  /\ \E r \in Ingestors : pcI[r] = "done"
  /\ Cardinality(articles) = 3
  /\ \E a \in articles : a.id = 1 /\ a.md5sum \in Md5s(posts)
  /\ \E a \in articles : a.id = 3 /\ a.md5sum \notin Md5s(posts)

(***************************************************************************)
(* Two dispatcher runs interleaved on one store                            *)
(***************************************************************************)

\* Runs d and e selected the same item and each has sent it to the gateway.
SentTwice(d, e) ==
  /\ d # e
  /\ artD[d] # Absent
  /\ artD[d] = artD[e]
  /\ gwD[d].calls = 1
  /\ gwD[e].calls = 1

\* C16: when two interleaved runs have selected the same item and both have
\* sent it, the store holds one PublishedMark for it once both have run
\* their mark step: one run created it and the other's insert was ignored.
C16_DoubleSendSingleMark ==
  \A d, e \in Dispatchers :
    SentTwice(d, e) /\ markD[d] # "none" /\ markD[e] # "none" =>
      /\ Cardinality({ p \in posts : p.md5sum = artD[d][1].md5sum }) = 1
      /\ {markD[d], markD[e]} = {"created", "ignored"}

\* Both runs selected item 1 before either marked it, both sends succeeded,
\* and both runs have ended.
C16_Witness ==
  /\ SentTwice("d1", "d2")
  /\ ~gwD["d1"].failed /\ ~gwD["d2"].failed
  /\ pcD["d1"] = "done" /\ pcD["d2"] = "done"
  /\ artD["d1"][1].id = 1
  /\ Cardinality({ p \in posts : p.md5sum = artD["d1"][1].md5sum }) = 1

(***************************************************************************)
(* Ingestion with failing store writes                                     *)
(***************************************************************************)

\* Ingestion runs, one at a time, any of whose writes may fail.
NextFault == \E r \in {"i1"} : Ingest(r) \/ IWriteFails(r)

SpecFault == Init /\ [][NextFault]_vars

\* C18: the Items change only at a run's commit, which adds all of the
\* run's insertions at once; the step on which a write fails leaves the
\* Items as they were before the run and drops all the run had inserted;
\* no insertion of a run in progress is among the Items.
C18_IngestionAllOrNothing ==
  /\ [](\A r \in Ingestors : pendI[r] \cap articles = {})
  /\ [][ \A r \in Ingestors :
           /\ pcI[r] # "crashed" /\ pcI'[r] = "crashed" =>
                articles' = articles /\ seqA' = seqA /\ pendI'[r] = {}
           /\ articles' # articles =>
                \E q \in Ingestors :
                  /\ pcI[q] = "commit" /\ pcI'[q] = "done"
                  /\ articles' = articles \cup pendI[q] ]_vars

\* A second run has failed after its first source was processed: an entry
\* of that source is not among the Items, and the first run's Items are.
C18_Witness ==
  \E r \in Ingestors :
    /\ pcI[r] = "crashed"
    /\ runsI = 2
    /\ articles # {}
    /\ \E i \in 1..(fi[r] - 1) :
         /\ i \in DOMAIN feedsI[r]
         /\ ~feedsI[r][i].bozo
         /\ \E k \in DOMAIN Considered(feedsI[r][i]) :
              EntryMd5(Considered(feedsI[r][i])[k]) \notin Md5s(articles)

(***************************************************************************)
(* Repeated dispatcher runs                                                *)
(***************************************************************************)

\* The Items that have a PublishedMark.
Marked == { a \in articles : a.md5sum \in Md5s(posts) }

\* C19: a run whose generation returns no result or an empty one ends
\* there, writes no mark and leaves the selector returning the item it had
\* selected; and while an Item is unmarked no Item with a larger id is
\* marked.
C19_HeadOfLineBlocking ==
  /\ [](\A a \in articles \ Marked : \A b \in Marked : b.id < a.id)
  /\ [][ \A d \in Dispatchers :
           pcD[d] = "summarize" /\ genD'[d].outcome \in {"none", "empty"} =>
             /\ pcD'[d] = "done"
             /\ posts' = posts
             /\ fetch_next_article(articles', posts') = artD[d] ]_vars

\* The third run in a row has selected item 1 and failed to generate, with
\* later Items waiting and nothing marked.
C19_Witness ==
  /\ runsD = 3
  /\ seqP = 0
  /\ Cardinality(articles) >= 2
  /\ \E d \in Dispatchers :
       /\ pcD[d] = "done"
       /\ genD[d].outcome \in {"none", "empty"}
       /\ artD[d] # Absent
       /\ artD[d][1].id = 1
       /\ fetch_next_article(articles, posts) = artD[d]

(***************************************************************************)
(* The dispatcher invoked again and again                                  *)
(***************************************************************************)

\* The scheduler starts main once more; the count of runs stops at its
\* bound, the runs do not.
DStartLive(d) ==
  /\ pcD[d] \in {"idle", "done", "crashed"}
  /\ runsD' = IF runsD < MaxDispatchRuns THEN runsD + 1 ELSE runsD
  /\ pcD' = [pcD EXCEPT ![d] = "select"]
  /\ artD' = [artD EXCEPT ![d] = Absent]
  /\ genD' = [genD EXCEPT ![d] = [calls |-> 0, outcome |-> "pending"]]
  /\ tweetD' = [tweetD EXCEPT ![d] = Absent]
  /\ gwD' = [gwD EXCEPT ![d] = [calls |-> 0, failed |-> FALSE]]
  /\ markD' = [markD EXCEPT ![d] = "none"]
  /\ UNCHANGED <<debug_mode, storeVars, ingestVars, histVars, clientVars, runsI>>

\* The steps of an ingestion run once it has started.
IngestStep(r) == IParse(r) \/ ISelect(r) \/ IInsert(r) \/ ICommit(r)

\* Generation succeeds: summarize hands main a tweet.
DSummarizeOk(d) == DSummarize(d) /\ pcD'[d] = "post"

\* Dispatch succeeds: post_to_twitter returns to main.
DPostOk(d) == DPost(d) /\ pcD'[d] = "mark"

NextLive ==
  \/ \E r \in {"i1"} : Ingest(r)
  \/ \E d \in {"d1"} : DStartLive(d) \/ Dispatch(d)

\* A started process runs on to its end; the dispatcher is started again
\* whenever it has ended; generation and dispatch, tried again and again,
\* succeed at some time.
SpecLive ==
  /\ Init
  /\ [][NextLive]_vars
  /\ WF_vars(IngestStep("i1"))
  /\ WF_vars(DStartLive("d1"))
  /\ WF_vars(Dispatch("d1"))
  /\ SF_vars(DSummarizeOk("d1"))
  /\ SF_vars(DPostOk("d1"))

\* C20: from some time on every Item has a PublishedMark and the selector
\* returns nothing.
C20_BacklogEventuallyPublished ==
  <>[](/\ Md5s(articles) \subseteq Md5s(posts)
       /\ fetch_next_article(articles, posts) = Absent)

\* Three Items were ingested and all three are marked.
C20_Witness ==
  /\ Cardinality(articles) = 3
  /\ Md5s(articles) = Md5s(posts)
  /\ pcD["d1"] = "done"
  /\ artD["d1"] = Absent

====
